---- MODULE Spec2Model ----
(***************************************************************************)
(* Model of src/endpoint.py: the /events handler (create_event) and the    *)
(* audio pipeline it calls (download_and_transcribe), run by one asyncio   *)
(* event loop.  The HTTP origin, the file system, ffmpeg, ffprobe, the     *)
(* speech engine and the BigQuery client are the environment: each call    *)
(* to them is a nondeterministic choice among the results it can return.   *)
(***************************************************************************)
EXTENDS Integers, Sequences, FiniteSets, TLC

(* ------------------------------ bounds --------------------------------- *)
\* number of inbound requests
NumReqs == 2
\* the clock runs from 0 to MaxTime, in ticks shorter than a second
MaxTime == 2
\* clock ticks per wall-clock second
TicksPerSecond == 2
\* bytes (in units of one non-empty chunk) a response body may hold
MaxBytes == 1
\* length of a Content-Length header value
MaxHdrLen == 1
\* length of the text the engine returns
MaxTextLen == 1

Reqs == 1..NumReqs

(* ------------------------------ values --------------------------------- *)
\* Python's Optional: None, or a value (a sequence of characters)
None == [some |-> FALSE, v |-> <<>>]
Some(x) == [some |-> TRUE, v |-> x]
\* Python truthiness of an Optional[str]: neither None nor ""
Truthy(o) == o.some /\ Len(o.v) > 0

SeqsUpTo(S, n) == UNION {[1..m -> S] : m \in 0..n}

NoPath == -1

\* strftime('%Y%m%d_%H%M%S'): the clock reading cut to whole seconds
strftime(t) == t \div TicksPerSecond
Stamps == 0..(MaxTime \div TicksPerSecond)

(* ---------------------------- exceptions ------------------------------- *)
\* an exception: the classes it is an instance of, and str(e)
Exc(classes, msg) == [cls |-> classes \cup {"Exception"}, msg |-> msg]
ValueError(msg) == Exc({"ValueError"}, msg)
RuntimeError(msg) == Exc({"RuntimeError"}, msg)
OSError(msg) == Exc({"OSError"}, msg)
ZeroDivisionError == Exc({"ZeroDivisionError", "ArithmeticError"}, "division by zero")
\* requests.exceptions: RequestException is an IOError; some are ValueErrors too
RequestException(kind, msg) == Exc({kind, "RequestException", "OSError"}, msg)
ConnectionError == RequestException("ConnectionError", "connection failed")
Timeout == RequestException("Timeout", "timed out")
ChunkedEncodingError == RequestException("ChunkedEncodingError", "connection broken")
MissingSchema == Exc({"MissingSchema", "RequestException", "OSError", "ValueError"}, "invalid URL")
HTTPError(status) ==
    RequestException("HTTPError",
                     IF status < 500 THEN "Client Error" ELSE "Server Error")

HTTPException(status_code, detail) ==
    [kind |-> "raise", status_code |-> status_code, detail |-> detail, text |-> <<>>]
Return(text) ==
    [kind |-> "return", status_code |-> 0, detail |-> "", text |-> text]
NoResult == [kind |-> "none", status_code |-> 0, detail |-> "", text |-> <<>>]

\* the except clauses of download_and_transcribe, tried in order
HandleException(e) ==
    IF "RequestException" \in e.cls
    THEN HTTPException(500, "Download error: " \o e.msg)
    ELSE IF "ValueError" \in e.cls
    THEN HTTPException(400, e.msg)
    ELSE HTTPException(500, e.msg)

(* ---------------------------- HTTP origin ------------------------------ *)
\* the statuses a response can carry (a 3xx with no Location is not followed)
StatusCodes == {200, 304, 404, 503}
\* a faulty variant: only server errors raise
RaisesForStatus_5xxOnly(status) == status >= 500 /\ status < 600
\* Response.raise_for_status raises for 4xx and 5xx
RaisesForStatus(status) == status >= 400 /\ status < 600

HdrChars == {"0", "1", "x"}
\* response.headers.get('Content-Length'): absent, or a header string
ContentLengths == {None} \cup {Some(s) : s \in SeqsUpTo(HdrChars, MaxHdrLen)}

Digit(c) == IF c = "0" THEN 0 ELSE IF c = "1" THEN 1 ELSE -1
RECURSIVE DigitsValue(_)
DigitsValue(s) ==
    IF s = <<>> THEN 0 ELSE 10 * DigitsValue(SubSeq(s, 1, Len(s) - 1)) + Digit(s[Len(s)])
\* int(s): the value of a decimal string, ValueError on anything else
int(s) ==
    IF Len(s) > 0 /\ \A i \in 1..Len(s) : Digit(s[i]) >= 0
    THEN [ok |-> TRUE, val |-> DigitsValue(s)]
    ELSE [ok |-> FALSE, val |-> 0]

(* ------------------------------ engine --------------------------------- *)
TextChars == {" ", "a"}
\* result["text"] as the engine returns it
Texts == SeqsUpTo(TextChars, MaxTextLen)
RECURSIVE lstrip(_)
lstrip(s) == IF s # <<>> /\ Head(s) = " " THEN lstrip(Tail(s)) ELSE s
RECURSIVE rstrip(_)
rstrip(s) ==
    IF s # <<>> /\ s[Len(s)] = " " THEN rstrip(SubSeq(s, 1, Len(s) - 1)) ELSE s
\* a faulty variant: the text is returned as the engine gave it
strip_Missing(s) == s
\* str.strip()
strip(s) == rstrip(lstrip(s))
\* what model.transcribe can raise
EngineErrors == {RuntimeError("engine failure"), ValueError("engine rejected the audio")}

(* ----------------------------- transcoder ------------------------------ *)
\* a faulty variant: auto-detection moved to the front of the list
conversion_commands_AutoFirst == <<"auto", "ogg", "audio">>
\* the -f hint of each ffmpeg command, in list order ("auto": no -f)
conversion_commands == <<"ogg", "audio", "auto">>
\* subprocess.run(cmd): exit status 0, a non-zero exit status, or an exception
FfmpegResults == {"ok", "fail", "raise"}
\* a faulty variant: the break is missing
LoopRuns_NoBreak(success, k) == k <= Len(conversion_commands)
\* the for loop goes on while it has not hit break and commands remain
LoopRuns(success, k) == ~success /\ k <= Len(conversion_commands)

(* ---------------------------- file system ------------------------------ *)
\* a file: whether it exists, its size, and the run whose download it holds
NoFile == [exists |-> FALSE, size |-> 0, src |-> 0]
File(size, src) == [exists |-> TRUE, size |-> size, src |-> src]

(* ------------------------------ requests ------------------------------- *)
\* the JSON body of a request: message.attachments (their number),
\* attachments[0].temporary_download_url, message.text, message.transcription
Bodies ==
    {b \in [attachments : 0..1, url : {None, Some(<<"u">>)},
            text : {None, Some(<<"t">>)}, transcription : {None}] :
        b.attachments = 0 => b.url = None}
NoBody == [attachments |-> 0, url |-> None, text |-> None, transcription |-> None]

(* ------------------------------- state --------------------------------- *)
VARIABLES
    clock,      \* datetime.now(), in ticks
    loop,       \* the request whose handler the event loop is running, 0 if none
    pc,         \* pc[r]: where request r's handler is
    body,       \* body[r]: create_event's body
    dt,         \* dt[r]: the locals of r's download_and_transcribe
    result,     \* result[r]: what r's download_and_transcribe returned or raised
    calls,      \* calls[r]: the external calls r's run has made, in order
    ogaFile,    \* the .oga files of the working directory, by timestamp
    wavFile,    \* the .wav files of the working directory, by timestamp
    transcription, \* transcription[r]: create_event's transcription
    rows,       \* the rows inserted into the events table
    response    \* response[r]: what create_event answered

vars ==
    <<clock, loop, pc, body, dt, result, calls, ogaFile, wavFile, transcription, rows,
      response>>

NoLocals ==
    [temp_oga_path |-> NoPath, wav_path |-> NoPath, content_length |-> None,
     downloaded_size |-> 0, buffered |-> 0, file_size |-> 0,
     k |-> 1, success |-> FALSE, wav_size |-> 0, text |-> None, transcription |-> None]

NoResponse == [status_code |-> 0, transcription |-> None]

\* an external call: what was called, its number (the HTTP status of a get,
\* the place in the list of an ffmpeg command, the size a getsize returned),
\* the -f hint (ffmpeg), how it ended, and the run whose downloaded bytes it read
Call(op, n, hint, res, src) == [op |-> op, n |-> n, hint |-> hint, res |-> res, src |-> src]

Init ==
    /\ clock = 0
    /\ loop = 0
    /\ pc = [r \in Reqs |-> "new"]
    /\ body = [r \in Reqs |-> NoBody]
    /\ dt = [r \in Reqs |-> NoLocals]
    /\ result = [r \in Reqs |-> NoResult]
    /\ calls = [r \in Reqs |-> <<>>]
    /\ ogaFile = [s \in Stamps |-> NoFile]
    /\ wavFile = [s \in Stamps |-> NoFile]
    /\ transcription = [r \in Reqs |-> None]
    /\ rows = <<>>
    /\ response = [r \in Reqs |-> NoResponse]

(* ----------------------------- event loop ------------------------------ *)
\* a faulty variant: the GET is awaited too (an asynchronous HTTP client)
SuspensionPoints_AwaitGet == {"ce_json", "dt_get"}
\* the places where a handler awaits something that can suspend it
SuspensionPoints == {"ce_json"}
\* the event loop after r's handler moved to `to`: free if r is suspended or done
Sched(r, to) == IF to \in SuspensionPoints \cup {"done"} THEN 0 ELSE r

\* the event loop runs r's handler: it resumes r when r is suspended and the
\* loop is free, and runs no other handler until r is suspended or done
Turn(r) == IF pc[r] \in SuspensionPoints THEN loop = 0 ELSE loop = r

Goto(r, to) ==
    /\ pc' = [pc EXCEPT ![r] = to]
    /\ loop' = Sched(r, to)

\* time passes
Tick ==
    /\ clock < MaxTime
    /\ clock' = clock + 1
    /\ UNCHANGED <<loop, pc, body, dt, result, calls, ogaFile, wavFile, transcription, rows,
                   response>>

(* --------------------------- create_event ------------------------------ *)
\* the handler of request r starts and awaits the request body; requests
\* are numbered in the order their handlers start
Start(r) ==
    /\ loop = 0
    /\ pc[r] = "new"
    /\ \A q \in Reqs : q < r => pc[q] # "new"
    /\ Goto(r, "ce_json")
    /\ UNCHANGED <<clock, body, dt, result, calls, ogaFile, wavFile, transcription, rows,
                   response>>

\* the handler of r returns or raises: its frame is gone
Finish(r) ==
    /\ Goto(r, "done")
    /\ body' = [body EXCEPT ![r] = NoBody]
    /\ result' = [result EXCEPT ![r] = NoResult]
    /\ transcription' = [transcription EXCEPT ![r] = None]

\* body = await request.json(): a body, or invalid JSON (the outer except)
ReadJson(r) ==
    /\ Turn(r)
    /\ pc[r] = "ce_json"
    /\ \/ \E b \in Bodies :
            /\ body' = [body EXCEPT ![r] = b]
            /\ Goto(r, "ce_attach")
            /\ UNCHANGED response
            /\ UNCHANGED <<result, transcription>>
       \/ /\ response' = [response EXCEPT ![r] = [status_code |-> 500, transcription |-> None]]
          /\ Finish(r)
    /\ UNCHANGED <<clock, dt, calls, ogaFile, wavFile, rows>>

\* the attachment test: call download_and_transcribe(url) or go on without
CheckAttachment(r) ==
    /\ Turn(r)
    /\ pc[r] = "ce_attach"
    /\ IF body[r].attachments > 0 /\ Truthy(body[r].url)
       THEN Goto(r, "dt_get")
       ELSE Goto(r, "ce_insert")
    /\ UNCHANGED <<clock, body, dt, result, calls, ogaFile, wavFile, transcription, rows,
                   response>>

(* ---------------------- download_and_transcribe ------------------------ *)
\* a faulty variant: the exception is swallowed and an empty transcript returned
Raise_Swallowed(r, e) ==
    /\ result' = [result EXCEPT ![r] = Return(<<>>)]
    /\ Goto(r, "ce_after")
\* an exception leaves the try block: the except clauses map it and re-raise
Raise(r, e) ==
    /\ result' = [result EXCEPT ![r] = HandleException(e)]
    /\ Goto(r, "ce_after")

Log(r, c) == calls' = [calls EXCEPT ![r] = Append(@, c)]

\* leaving the with block closes the file, which writes out what is buffered
Closed(f, n) == File(f.size + n, f.src)
\* os.path.getsize
getsize(f) == f.size
\* a faulty variant: the test can never be true
FileSizeIsZero_Negative(file_size) == file_size < 0
\* `if file_size == 0`
FileSizeIsZero(file_size) == file_size = 0
\* a faulty variant: the test is missing
WavSizeIsZero_Never(wav_size) == FALSE
\* `if wav_size == 0`
WavSizeIsZero(wav_size) == wav_size = 0
\* a faulty variant: the test is missing
NotSuccess_Never(success) == FALSE
\* `if not success`
NotSuccess(success) == ~success

\* a faulty variant: a get that raised is tried a second time
Get_RetryOnce(r) ==
    /\ Turn(r)
    /\ pc[r] = "dt_get"
    /\ \/ \E e \in {ConnectionError, Timeout, MissingSchema} :
            /\ Log(r, Call("get", 0, "", "raise", r))
            /\ IF calls[r] = <<>>
               THEN UNCHANGED <<pc, loop, result>>
               ELSE Raise(r, e)
            /\ UNCHANGED dt
       \/ \E status \in StatusCodes, cl \in ContentLengths :
            /\ Log(r, Call("get", status, "", "response", r))
            /\ IF RaisesForStatus(status)
               THEN Raise(r, HTTPError(status)) /\ UNCHANGED dt
               ELSE /\ dt' = [dt EXCEPT ![r].content_length = cl]
                    /\ Goto(r, "dt_path")
                    /\ UNCHANGED result
    /\ UNCHANGED <<clock, body, ogaFile, wavFile, transcription, rows, response>>
\* response = requests.get(...); response.raise_for_status()
Get(r) ==
    /\ Turn(r)
    /\ pc[r] = "dt_get"
    /\ \/ \E e \in {ConnectionError, Timeout, MissingSchema} :
            /\ Log(r, Call("get", 0, "", "raise", r))
            /\ Raise(r, e)
            /\ UNCHANGED dt
       \/ \E status \in StatusCodes, cl \in ContentLengths :
            /\ Log(r, Call("get", status, "", "response", r))
            /\ IF RaisesForStatus(status)
               THEN Raise(r, HTTPError(status)) /\ UNCHANGED dt
               ELSE /\ dt' = [dt EXCEPT ![r].content_length = cl]
                    /\ Goto(r, "dt_path")
                    /\ UNCHANGED result
    /\ UNCHANGED <<clock, body, ogaFile, wavFile, transcription, rows, response>>

\* temp_oga_path = audio_<now>.oga
MakePath(r) ==
    /\ Turn(r)
    /\ pc[r] = "dt_path"
    /\ dt' = [dt EXCEPT ![r].temp_oga_path = strftime(clock)]
    /\ Goto(r, "dt_open")
    /\ UNCHANGED <<clock, body, result, calls, ogaFile, wavFile, transcription, rows,
                   response>>

\* a faulty variant: the file is opened to append ('ab'), what lies at the path
\* stays
OpenFile_Append(r) ==
    /\ Turn(r)
    /\ pc[r] = "dt_open"
    /\ \/ /\ Raise(r, OSError("cannot open file"))
          /\ Log(r, Call("open", 0, "", "raise", r))
          /\ UNCHANGED ogaFile
       \/ /\ ogaFile' = [ogaFile EXCEPT ![dt[r].temp_oga_path] =
                            IF @.exists THEN @ ELSE File(0, r)]
          /\ Log(r, Call("open", 0, "", "ok", r))
          /\ Goto(r, "dt_iter")
          /\ UNCHANGED result
    /\ UNCHANGED <<clock, body, dt, wavFile, transcription, rows, response>>
\* open(temp_oga_path, 'wb'): creates or truncates the file, or fails
OpenFile(r) ==
    /\ Turn(r)
    /\ pc[r] = "dt_open"
    /\ \/ /\ Raise(r, OSError("cannot open file"))
          /\ Log(r, Call("open", 0, "", "raise", r))
          /\ UNCHANGED ogaFile
       \/ /\ ogaFile' = [ogaFile EXCEPT ![dt[r].temp_oga_path] = File(0, r)]
          /\ Log(r, Call("open", 0, "", "ok", r))
          /\ Goto(r, "dt_iter")
          /\ UNCHANGED result
    /\ UNCHANGED <<clock, body, dt, wavFile, transcription, rows, response>>

\* the lengths of a chunk: empty or not
ChunkLens == {0, 1}

\* one turn of `for chunk in response.iter_content(...)`, its end, or its failure
IterChunk(r) ==
    LET p == dt[r].temp_oga_path
        cl == dt[r].content_length
    IN
    /\ Turn(r)
    /\ pc[r] = "dt_iter"
    /\ \/ /\ dt[r].downloaded_size < MaxBytes
          /\ \E c \in ChunkLens :
               LET written == [dt EXCEPT ![r].buffered = @ + c,
                                         ![r].downloaded_size = @ + c]
               IN
               /\ dt' = written
               /\ IF c > 0 /\ Truthy(cl) /\ ~int(cl.v).ok
                  THEN /\ Raise(r, ValueError("invalid literal for int()"))
                       /\ ogaFile' = [ogaFile EXCEPT ![p] = Closed(@, written[r].buffered)]
                  ELSE IF c > 0 /\ Truthy(cl) /\ int(cl.v).val = 0
                  THEN /\ Raise(r, ZeroDivisionError)
                       /\ ogaFile' = [ogaFile EXCEPT ![p] = Closed(@, written[r].buffered)]
                  ELSE UNCHANGED <<pc, loop, result, ogaFile>>
          /\ UNCHANGED calls
       \/ /\ Goto(r, "dt_sync")
          /\ UNCHANGED <<dt, result, ogaFile, calls>>
       \/ /\ Raise(r, ChunkedEncodingError)
          /\ Log(r, Call("iter_content", 0, "", "raise", r))
          /\ ogaFile' = [ogaFile EXCEPT ![p] = Closed(@, dt[r].buffered)]
          /\ UNCHANGED dt
    /\ UNCHANGED <<clock, body, wavFile, transcription, rows, response>>

\* a faulty variant: the size is read inside the with block, before the flush
Sync_NotYet(r) ==
    /\ Turn(r)
    /\ pc[r] = "dt_sync"
    /\ dt' = [dt EXCEPT ![r].content_length = None]
    /\ Goto(r, "dt_size")
    /\ UNCHANGED <<clock, body, result, calls, ogaFile, wavFile, transcription, rows,
                   response>>
\* temp_oga.flush(); os.fsync(...); the with block ends.  The response is not
\* read again: its Content-Length leaves the state
Sync(r) ==
    LET p == dt[r].temp_oga_path IN
    /\ Turn(r)
    /\ pc[r] = "dt_sync"
    /\ ogaFile' = [ogaFile EXCEPT ![p] = Closed(@, dt[r].buffered)]
    /\ dt' = [dt EXCEPT ![r].buffered = 0, ![r].content_length = None]
    /\ Log(r, Call("fsync", 0, "", "ok", ogaFile[p].src))
    /\ Goto(r, "dt_size")
    /\ UNCHANGED <<clock, body, result, wavFile, transcription, rows, response>>

\* file_size = os.path.getsize(temp_oga_path); an empty file is a ValueError
CheckSize(r) ==
    LET f == ogaFile[dt[r].temp_oga_path] IN
    /\ Turn(r)
    /\ pc[r] = "dt_size"
    /\ dt' = [dt EXCEPT ![r].file_size = getsize(f)]
    /\ Log(r, Call("getsize", getsize(f), "", "ok", f.src))
    /\ IF FileSizeIsZero(getsize(f))
       THEN Raise(r, ValueError("Downloaded file is empty"))
       ELSE Goto(r, "dt_magic") /\ UNCHANGED result
    /\ UNCHANGED <<clock, body, ogaFile, wavFile, transcription, rows, response>>

\* a faulty variant: inspect_file is called on the downloaded file as well
Sniff_AndProbe(r) ==
    LET f == ogaFile[dt[r].temp_oga_path] IN
    /\ Turn(r)
    /\ pc[r] = "dt_magic"
    /\ \E res \in {"ok", "fail", "raise"} :
         calls' = [calls EXCEPT ![r] =
                      @ \o <<Call("magic", 0, "", "ok", f.src), Call("header", 0, "", "ok", f.src),
                             Call("ffprobe", 0, "", res, f.src)>>]
    /\ Goto(r, "dt_wavpath")
    /\ UNCHANGED <<clock, body, dt, result, ogaFile, wavFile, transcription, rows, response>>
\* magic.from_file(temp_oga_path), then the first 16 bytes are read and logged
Sniff(r) ==
    LET f == ogaFile[dt[r].temp_oga_path] IN
    /\ Turn(r)
    /\ pc[r] = "dt_magic"
    /\ calls' = [calls EXCEPT ![r] =
                    @ \o <<Call("magic", 0, "", "ok", f.src), Call("header", 0, "", "ok", f.src)>>]
    /\ Goto(r, "dt_wavpath")
    /\ UNCHANGED <<clock, body, dt, result, ogaFile, wavFile, transcription, rows, response>>

\* wav_path = audio_<now>.wav
MakeWavPath(r) ==
    /\ Turn(r)
    /\ pc[r] = "dt_wavpath"
    /\ dt' = [dt EXCEPT ![r].wav_path = strftime(clock)]
    /\ Goto(r, "dt_conv")
    /\ UNCHANGED <<clock, body, result, calls, ogaFile, wavFile, transcription, rows,
                   response>>

\* the sizes of the file ffmpeg leaves when it exits 0: empty or not
WavSizes == {0, 1}

\* a faulty variant: success is set after every command that did not raise
Convert_SuccessUnconditional(r) ==
    LET w == dt[r].wav_path
        k == dt[r].k
        src == ogaFile[dt[r].temp_oga_path].src
    IN
    /\ Turn(r)
    /\ pc[r] = "dt_conv"
    /\ \E res \in FfmpegResults :
         /\ Log(r, Call("ffmpeg", k, conversion_commands[k], res, src))
         /\ \/ /\ res = "ok"
               /\ \E size \in WavSizes : wavFile' = [wavFile EXCEPT ![w] = File(size, src)]
               /\ dt' = [dt EXCEPT ![r].k = k + 1, ![r].success = TRUE]
            \/ /\ res = "fail"
               /\ \E wrote \in BOOLEAN :
                    wavFile' = IF wrote THEN [wavFile EXCEPT ![w] = File(0, src)] ELSE wavFile
               /\ dt' = [dt EXCEPT ![r].k = k + 1, ![r].success = TRUE]
            \/ /\ res = "raise"
               /\ dt' = [dt EXCEPT ![r].k = k + 1]
               /\ UNCHANGED wavFile
    /\ Goto(r, IF LoopRuns(dt'[r].success, dt'[r].k) THEN "dt_conv" ELSE "dt_check")
    /\ UNCHANGED <<clock, body, result, ogaFile, transcription, rows, response>>

\* one turn of `for cmd in conversion_commands`: run ffmpeg, break on exit status 0
Convert(r) ==
    LET w == dt[r].wav_path
        k == dt[r].k
        src == ogaFile[dt[r].temp_oga_path].src
    IN
    /\ Turn(r)
    /\ pc[r] = "dt_conv"
    /\ \E res \in FfmpegResults :
         /\ Log(r, Call("ffmpeg", k, conversion_commands[k], res, src))
         /\ \/ /\ res = "ok"
               /\ \E size \in WavSizes : wavFile' = [wavFile EXCEPT ![w] = File(size, src)]
               /\ dt' = [dt EXCEPT ![r].k = k + 1, ![r].success = TRUE]
            \/ /\ res = "fail"
               /\ \E wrote \in BOOLEAN :
                    wavFile' = IF wrote THEN [wavFile EXCEPT ![w] = File(0, src)] ELSE wavFile
               /\ dt' = [dt EXCEPT ![r].k = k + 1]
            \/ /\ res = "raise"
               /\ dt' = [dt EXCEPT ![r].k = k + 1]
               /\ UNCHANGED wavFile
    /\ Goto(r, IF LoopRuns(dt'[r].success, dt'[r].k) THEN "dt_conv" ELSE "dt_check")
    /\ UNCHANGED <<clock, body, result, ogaFile, transcription, rows, response>>

\* `if not success: raise RuntimeError`, then the size check of the WAV file
CheckConverted(r) ==
    LET f == wavFile[dt[r].wav_path] IN
    /\ Turn(r)
    /\ pc[r] = "dt_check"
    /\ IF NotSuccess(dt[r].success)
       THEN /\ Raise(r, RuntimeError("All conversion attempts failed"))
            /\ UNCHANGED <<dt, calls>>
       ELSE IF ~f.exists
       THEN /\ Raise(r, OSError("No such file or directory"))
            /\ Log(r, Call("getsize_wav", 0, "", "raise", f.src))
            /\ UNCHANGED dt
       ELSE /\ dt' = [dt EXCEPT ![r].wav_size = getsize(f)]
            /\ Log(r, Call("getsize_wav", getsize(f), "", "ok", f.src))
            /\ IF WavSizeIsZero(getsize(f))
               THEN Raise(r, ValueError("Converted WAV file is empty"))
               ELSE Goto(r, "dt_inspect") /\ UNCHANGED result
    /\ UNCHANGED <<clock, body, ogaFile, wavFile, transcription, rows, response>>

\* what ffprobe can do: exit 0, exit non-zero, or fail to start
FfprobeResults == {"ok", "fail", "raise"}

\* a faulty variant: inspect_file lacks its try/except, the failure to start
\* ffprobe leaves it as an exception
Inspect_Unguarded(r) ==
    /\ Turn(r)
    /\ pc[r] = "dt_inspect"
    /\ \E res \in FfprobeResults :
         /\ Log(r, Call("ffprobe", 0, "", res, wavFile[dt[r].wav_path].src))
         /\ IF res = "raise"
            THEN Raise(r, OSError("No such file or directory: 'ffprobe'"))
            ELSE Goto(r, "dt_transcribe") /\ UNCHANGED result
    /\ UNCHANGED <<clock, body, dt, ogaFile, wavFile, transcription, rows, response>>
\* inspect_file(wav_path): subprocess.run without check (a non-zero exit is
\* no exception) inside try/except Exception; what it returns is dropped
Inspect(r) ==
    /\ Turn(r)
    /\ pc[r] = "dt_inspect"
    /\ \E res \in FfprobeResults : Log(r, Call("ffprobe", 0, "", res, wavFile[dt[r].wav_path].src))
    /\ Goto(r, "dt_transcribe")
    /\ UNCHANGED <<clock, body, dt, result, ogaFile, wavFile, transcription, rows, response>>

\* result = model.transcribe(wav_path); transcription = result["text"].strip();
\* return transcription
Transcribe(r) ==
    LET f == wavFile[dt[r].wav_path] IN
    /\ Turn(r)
    /\ pc[r] = "dt_transcribe"
    /\ \/ \E t \in Texts :
            /\ dt' = [dt EXCEPT ![r].text = Some(t), ![r].transcription = Some(strip(t))]
            /\ Log(r, Call("transcribe", 0, "", "ok", f.src))
            /\ result' = [result EXCEPT ![r] = Return(strip(t))]
            /\ Goto(r, "ce_after")
       \/ \E e \in EngineErrors :
            /\ Raise(r, e)
            /\ Log(r, Call("transcribe", 0, "", "raise", f.src))
            /\ UNCHANGED dt
    /\ UNCHANGED <<clock, body, ogaFile, wavFile, transcription, rows, response>>

(* ------------------------ create_event, the rest ----------------------- *)
\* a faulty variant: the inner try/except is missing, the exception reaches the
\* outer except and the request is answered with a 500
AfterTranscribe_Uncaught(r) ==
    /\ Turn(r)
    /\ pc[r] = "ce_after"
    /\ dt' = [dt EXCEPT ![r] = NoLocals]
    /\ calls' = [calls EXCEPT ![r] = <<>>]
    /\ IF result[r].kind = "return"
       THEN /\ transcription' = [transcription EXCEPT ![r] = Some(result[r].text)]
            /\ body' = [body EXCEPT
                  ![r].text = IF Truthy(@) THEN @ ELSE Some(result[r].text),
                  ![r].transcription = Some(result[r].text)]
            /\ Goto(r, "ce_insert")
            /\ UNCHANGED <<result, response>>
       ELSE /\ response' = [response EXCEPT ![r] = [status_code |-> 500, transcription |-> None]]
            /\ Finish(r)
    /\ UNCHANGED <<clock, ogaFile, wavFile, rows>>
\* back in create_event: the transcript is put into the body, or the
\* exception is caught by `except Exception` and only logged.  The frame of
\* download_and_transcribe is gone
AfterTranscribe(r) ==
    /\ Turn(r)
    /\ pc[r] = "ce_after"
    /\ IF result[r].kind = "return"
       THEN /\ transcription' = [transcription EXCEPT ![r] = Some(result[r].text)]
            /\ body' = [body EXCEPT
                  ![r].text = IF Truthy(@) THEN @ ELSE Some(result[r].text),
                  ![r].transcription = Some(result[r].text)]
       ELSE UNCHANGED <<body, transcription>>
    /\ dt' = [dt EXCEPT ![r] = NoLocals]
    /\ calls' = [calls EXCEPT ![r] = <<>>]
    /\ Goto(r, "ce_insert")
    /\ UNCHANGED <<clock, result, ogaFile, wavFile, rows, response>>

\* a faulty variant: `if transcription is not None` in place of `if transcription`
InsertRow_NotNone(r) ==
    /\ Turn(r)
    /\ pc[r] = "ce_insert"
    /\ \/ /\ rows' = Append(rows, [req |-> r, body |-> body[r]])
          /\ response' = [response EXCEPT ![r] =
                [status_code |-> 200, transcription |-> transcription[r]]]
       \/ /\ response' = [response EXCEPT ![r] = [status_code |-> 500, transcription |-> None]]
          /\ UNCHANGED rows
    /\ Finish(r)
    /\ UNCHANGED <<clock, dt, calls, ogaFile, wavFile>>
\* client.insert_rows_json(table_ref, [row]) and the response
InsertRow(r) ==
    /\ Turn(r)
    /\ pc[r] = "ce_insert"
    /\ \/ /\ rows' = Append(rows, [req |-> r, body |-> body[r]])
          /\ response' = [response EXCEPT ![r] =
                [status_code |-> 200,
                 transcription |-> IF Truthy(transcription[r]) THEN transcription[r] ELSE None]]
       \/ /\ response' = [response EXCEPT ![r] = [status_code |-> 500, transcription |-> None]]
          /\ UNCHANGED rows
    /\ Finish(r)
    /\ UNCHANGED <<clock, dt, calls, ogaFile, wavFile>>

(* --------------------------- specification ----------------------------- *)
Next ==
    \/ Tick
    \/ \E r \in Reqs :
         \/ Start(r)
         \/ ReadJson(r)
         \/ CheckAttachment(r)
         \/ Get(r)
         \/ MakePath(r)
         \/ OpenFile(r)
         \/ IterChunk(r)
         \/ Sync(r)
         \/ CheckSize(r)
         \/ Sniff(r)
         \/ MakeWavPath(r)
         \/ Convert(r)
         \/ CheckConverted(r)
         \/ Inspect(r)
         \/ Transcribe(r)
         \/ AfterTranscribe(r)
         \/ InsertRow(r)

Spec == Init /\ [][Next]_vars

(* ============================== claims ================================= *)
\* r's download_and_transcribe is between its first statement and its end
InRun(r) ==
    pc[r] \in {"dt_get", "dt_path", "dt_open", "dt_iter", "dt_sync", "dt_size", "dt_magic",
               "dt_wavpath", "dt_conv", "dt_check", "dt_inspect", "dt_transcribe"}
\* r's download_and_transcribe has just returned or raised
Ended(r) == pc[r] = "ce_after"
\* r's run has made a call of this kind
Made(r, op) == \E i \in DOMAIN calls[r] : calls[r][i].op = op
IsFfmpeg(c) == c.op = "ffmpeg"
\* the ffmpeg invocations of r's run, in order
FfmpegCalls(r) == SelectSeq(calls[r], IsFfmpeg)
LastCall(r) == calls[r][Len(calls[r])]
\* the ways a transport failure is surfaced
NetworkErrors ==
    {HTTPException(500, "Download error: " \o e.msg) :
        e \in {ConnectionError, Timeout, MissingSchema, ChunkedEncodingError,
               HTTPError(404), HTTPError(503)}}
EmptyDownload == HTTPException(400, "Downloaded file is empty")
EmptyTranscode == HTTPException(400, "Converted WAV file is empty")
AllConversionsFailed == HTTPException(500, "All conversion attempts failed")

\* the stream ended (the file was synced and closed) and no byte had arrived
BodyEmpty(r) == Made(r, "fsync") /\ dt[r].downloaded_size = 0

\* C1: a run whose response body is empty goes from the size check straight to
\* its end, ends with HTTP 400 'Downloaded file is empty', and invokes neither
\* ffmpeg nor the engine.
C1_EmptyDownload ==
    \A r \in Reqs :
        BodyEmpty(r) =>
            /\ pc[r] \in {"dt_size", "ce_after"}
            /\ Ended(r) => result[r] = EmptyDownload
            /\ ~Made(r, "ffmpeg") /\ ~Made(r, "transcribe")
C1_Witness ==
    \E r \in Reqs : BodyEmpty(r) /\ Ended(r) /\ result[r] = EmptyDownload

\* the get raised, or the stream failed while the body was read
ConnectionFailed(r) ==
    \E i \in DOMAIN calls[r] :
        \/ calls[r][i].op = "get" /\ calls[r][i].res = "raise"
        \/ calls[r][i].op = "iter_content" /\ calls[r][i].res = "raise"
\* the response carried this status
GotStatus(r, codes) ==
    \E i \in DOMAIN calls[r] :
        calls[r][i].op = "get" /\ calls[r][i].res = "response" /\ calls[r][i].n \in codes
\* a run that failed at the transport layer has ended with a 'Download error'
\* and has run neither ffmpeg nor the engine
EndsAsNetworkError(r) ==
    /\ Ended(r)
    /\ result[r] \in NetworkErrors
    /\ ~Made(r, "ffmpeg") /\ ~Made(r, "transcribe")

C3_StopAfterSuccess ==
    \A r \in Reqs :
        \A i, j \in DOMAIN calls[r] :
            i < j /\ IsFfmpeg(calls[r][i]) /\ calls[r][i].res = "ok" => ~IsFfmpeg(calls[r][j])
C3_Witness ==
    \E r \in Reqs :
        /\ Ended(r)
        /\ Len(FfmpegCalls(r)) = 1
        /\ FfmpegCalls(r)[1].n = 1 /\ FfmpegCalls(r)[1].res = "ok"

\* an ffmpeg command exited 0 and the WAV file it left is empty
SuccessButEmpty(r) ==
    /\ \E i \in DOMAIN calls[r] : IsFfmpeg(calls[r][i]) /\ calls[r][i].res = "ok"
    /\ wavFile[dt[r].wav_path].size = 0

\* C4: when a command exited 0 but the WAV file is empty, the run goes from the
\* loop to the checks and ends with HTTP 400 'Converted WAV file is empty', not
\* with 'All conversion attempts failed'; the command that exited 0 is the last
\* one invoked and the engine is not invoked.
C4_EmptyTranscode ==
    \A r \in Reqs :
        SuccessButEmpty(r) =>
            /\ pc[r] \in {"dt_check", "ce_after"}
            /\ Ended(r) => result[r] = EmptyTranscode /\ result[r] # AllConversionsFailed
            /\ FfmpegCalls(r)[Len(FfmpegCalls(r))].res = "ok"
            /\ ~Made(r, "transcribe")
C4_Witness ==
    \E r \in Reqs :
        /\ SuccessButEmpty(r)
        /\ Ended(r)
        /\ result[r] = EmptyTranscode
        /\ Len(FfmpegCalls(r)) = 2

\* each command of the list was invoked and none exited 0
AllFailed(r) ==
    /\ {c.n : c \in {FfmpegCalls(r)[i] : i \in DOMAIN FfmpegCalls(r)}}
          = DOMAIN conversion_commands
    /\ \A i \in DOMAIN FfmpegCalls(r) : FfmpegCalls(r)[i].res \in {"fail", "raise"}

\* C5: when all three commands failed (a non-zero exit or an exception), the
\* run ends with HTTP 500 'All conversion attempts failed', no WAV file is
\* accepted (success stays false, its size is never read) and the engine is
\* not invoked.
C5_AllConversionsFailed ==
    \A r \in Reqs :
        AllFailed(r) =>
            /\ pc[r] \in {"dt_check", "ce_after"}
            /\ Ended(r) => result[r] = AllConversionsFailed
            /\ ~dt[r].success
            /\ ~Made(r, "getsize_wav") /\ ~Made(r, "ffprobe") /\ ~Made(r, "transcribe")
C5_Witness ==
    \E r \in Reqs :
        /\ AllFailed(r)
        /\ Ended(r)
        /\ result[r] = AllConversionsFailed
        /\ \E i \in DOMAIN FfmpegCalls(r) : FfmpegCalls(r)[i].res = "raise"
        /\ \E i \in DOMAIN FfmpegCalls(r) : FfmpegCalls(r)[i].res = "fail"

\* the hints in the order the claim gives them
StrategyOrder == <<"ogg", "audio", "auto">>
\* the run has passed the transcoder: it is at the probe or the engine, or has
\* called the engine
PastTranscoder(r) == pc[r] \in {"dt_inspect", "dt_transcribe"} \/ Made(r, "transcribe")

\* C6: the i-th ffmpeg invocation of a run is the i-th strategy (OGG hint,
\* raw-audio hint, auto-detect) and every invocation before it failed; a run
\* that gets past the transcoder does so on a command that exited 0, after
\* all the earlier ones failed, with a non-empty WAV file.
C6_InOrder ==
    \A r \in Reqs :
        LET F == FfmpegCalls(r) IN
        /\ Len(F) <= Len(StrategyOrder)
        /\ \A i \in DOMAIN F :
              /\ F[i].n = i
              /\ i <= Len(StrategyOrder) => F[i].hint = StrategyOrder[i]
              /\ \A j \in 1..(i - 1) : F[j].res \in {"fail", "raise"}
        /\ PastTranscoder(r) =>
              /\ F # <<>>
              /\ F[Len(F)].res = "ok"
              /\ wavFile[dt[r].wav_path].size > 0
              /\ dt[r].wav_size > 0
C6_Witness ==
    \E r \in Reqs :
        LET F == FfmpegCalls(r) IN
        /\ Ended(r)
        /\ result[r].kind = "return"
        /\ Len(F) = 3
        /\ F[1].res = "fail" /\ F[2].res = "fail"
        /\ F[3].res = "ok" /\ F[3].hint = "auto"
        /\ wavFile[dt[r].wav_path].size > 0

\* a step of r's download_and_transcribe
RunStep(r) ==
    \/ Get(r) \/ MakePath(r) \/ OpenFile(r) \/ IterChunk(r) \/ Sync(r) \/ CheckSize(r)
    \/ Sniff(r) \/ MakeWavPath(r) \/ Convert(r) \/ CheckConverted(r) \/ Inspect(r)
    \/ Transcribe(r)

\* C7: a run has no outcome before it ends and can stop nowhere but at its end;
\* at its end it has exactly one outcome: a returned transcript, which is the
\* stripped text of an engine call that succeeded as the run's last call, or a
\* raised HTTPException (status 400 or 500) that carries no transcript.
C7_ExactlyOneOutcome ==
    \A r \in Reqs :
        /\ InRun(r) => result[r] = NoResult /\ ENABLED RunStep(r)
        /\ Ended(r) =>
              \/ /\ result[r].kind = "return"
                 /\ LastCall(r).op = "transcribe" /\ LastCall(r).res = "ok"
                 /\ dt[r].transcription.some
                 /\ result[r] = Return(dt[r].transcription.v)
              \/ /\ result[r].kind = "raise"
                 /\ result[r].status_code \in {400, 500}
                 /\ result[r].text = <<>>
                 /\ ~dt[r].transcription.some
                 /\ ~(LastCall(r).op = "transcribe" /\ LastCall(r).res = "ok")
\* one request was answered with a transcript, and the run of another has
\* ended by an exception of the engine
C7_Witness ==
    /\ \E r \in Reqs : Ended(r) /\ result[r].kind = "raise" /\ Made(r, "transcribe")
    /\ \E q \in Reqs : response[q].transcription = Some(<<"a">>)

\* what ended r's run, read from its calls
Cause(r) ==
    IF ConnectionFailed(r) \/ GotStatus(r, StatusCodes \cap (400..599)) THEN "NetworkError"
    ELSE IF LastCall(r).op = "getsize" /\ LastCall(r).n = 0 THEN "EmptyDownload"
    ELSE IF AllFailed(r) THEN "AllConversionsFailed"
    ELSE IF LastCall(r).op = "getsize_wav" /\ LastCall(r).res = "ok" /\ LastCall(r).n = 0
    THEN "EmptyTranscode"
    ELSE IF LastCall(r).op = "transcribe" /\ LastCall(r).res = "raise" THEN "TranscriptionError"
    ELSE "other"
\* the details of the four failures that are not the engine's
OtherDetails ==
    {e.detail : e \in NetworkErrors \cup {EmptyDownload, EmptyTranscode, AllConversionsFailed}}

\* C8: each of the five failures ends the run with an HTTPException of its own:
\* NetworkError 500 'Download error: ...', EmptyDownload 400 'Downloaded file
\* is empty', AllConversionsFailed 500 'All conversion attempts failed',
\* EmptyTranscode 400 'Converted WAV file is empty', and an engine failure
\* with a detail none of the others has and never with the 400 of a
\* validation failure.
C8_Distinguishable ==
    \A r \in Reqs :
        Ended(r) /\ calls[r] # <<>> =>
            /\ Cause(r) = "NetworkError" => result[r] \in NetworkErrors
            /\ Cause(r) = "EmptyDownload" => result[r] = EmptyDownload
            /\ Cause(r) = "AllConversionsFailed" => result[r] = AllConversionsFailed
            /\ Cause(r) = "EmptyTranscode" => result[r] = EmptyTranscode
            /\ Cause(r) = "TranscriptionError" =>
                  /\ result[r].kind = "raise"
                  /\ result[r].detail \notin OtherDetails
                  /\ result[r].status_code # 400

\* C9: a run never takes a path at which a file of another run lies: the
\* .oga and .wav paths of any two runs differ.
C9_DistinctPaths ==
    \A r \in Reqs :
        /\ dt[r].temp_oga_path # NoPath => ogaFile[dt[r].temp_oga_path].src \in {0, r}
        /\ dt[r].wav_path # NoPath => wavFile[dt[r].wav_path].src \in {0, r}

\* r's run ended inside the download loop: the file was opened, never synced
EndedInDownloadLoop(r) ==
    /\ Ended(r)
    /\ \E i \in DOMAIN calls[r] : calls[r][i].op = "open" /\ calls[r][i].res = "ok"
    /\ ~Made(r, "fsync")

\* C10: whatever Content-Length the response declares, a run ends inside the
\* download loop only as it does with none declared, by a failure of the
\* stream (a NetworkError): the progress computation fails no run.
C10_ProgressNeverFails ==
    \A r \in Reqs :
        EndedInDownloadLoop(r) =>
            /\ LastCall(r).op = "iter_content"
            /\ result[r] \in NetworkErrors

\* r's run has called ffprobe, and this is how the call ended
Probed(r, res) ==
    \E i \in DOMAIN calls[r] : calls[r][i].op = "ffprobe" /\ calls[r][i].res = res

\* C11: however the ffprobe call ends (exit 0, a non-zero exit, a failure to
\* start), inspect_file returns and the run goes on to the engine: right after
\* the call the run is at model.transcribe with no outcome yet and the engine
\* call is possible, the next call of the run is the engine's, and the run's
\* outcome is the one that engine call gives (its stripped text, or its
\* exception).
C11_ProbeNeverFails ==
    \A r \in Reqs :
        \A i \in DOMAIN calls[r] :
            calls[r][i].op = "ffprobe" =>
                IF i = Len(calls[r])
                THEN pc[r] = "dt_transcribe" /\ result[r] = NoResult /\ ENABLED Transcribe(r)
                ELSE /\ i + 1 = Len(calls[r])
                     /\ LastCall(r).op = "transcribe"
                     /\ Ended(r)
                     /\ result[r].kind = "return" <=> LastCall(r).res = "ok"
C11_Witness ==
    \E r \in Reqs : Probed(r, "raise") /\ Ended(r) /\ result[r] = Return(<<"a">>)

\* the text has no character but spaces
IsBlank(s) == \A i \in DOMAIN s : s[i] = " "
\* the WAV file passed the checks and the engine returned this text
EngineReturned(r) ==
    /\ calls[r] # <<>>
    /\ LastCall(r).op = "transcribe" /\ LastCall(r).res = "ok"
    /\ dt[r].success /\ dt[r].wav_size > 0
    /\ dt[r].text.some

\* C12: when a command exited 0, the WAV file is not empty and the engine
\* returns a text, the run ends by returning that text without its
\* surrounding spaces; an empty text or one of spaces only is returned as the
\* empty string, not raised as an error.
C12_EmptyTranscriptIsSuccess ==
    \A r \in Reqs :
        EngineReturned(r) =>
            /\ Ended(r)
            /\ result[r].kind = "return"
            /\ result[r].text = <<>> \/ (Head(result[r].text) # " "
                                          /\ result[r].text[Len(result[r].text)] # " ")
            /\ IsBlank(dt[r].text.v) => result[r] = Return(<<>>)
C12_Witness ==
    \E r \in Reqs :
        /\ EngineReturned(r)
        /\ dt[r].text.v = <<" ">>
        /\ result[r] = Return(<<>>)
        /\ FfmpegCalls(r)[1].res = "ok"

\* the place in r's calls of the first call of this kind (0 if there is none)
First(r, op) ==
    IF Made(r, op) THEN CHOOSE i \in DOMAIN calls[r] :
                            /\ calls[r][i].op = op
                            /\ \A j \in 1..(i - 1) : calls[r][j].op # op
    ELSE 0
\* before its call at place i, r's run has read a size greater than 0 by a
\* call of this kind
VerifiedNonEmpty(r, op, i) ==
    \E j \in 1..(i - 1) :
        calls[r][j].op = op /\ calls[r][j].res = "ok" /\ calls[r][j].n > 0

\* C13: a run has invoked ffmpeg only after it read a size greater than 0 of
\* the downloaded file; it has invoked the engine only after an ffmpeg command
\* exited 0 and it then read a size greater than 0 of the WAV file; and when
\* the engine is invoked or has returned, the WAV file exists and is not
\* empty.
C13_OnlyFromNonEmpty ==
    \A r \in Reqs :
        /\ Made(r, "ffmpeg") =>
              /\ VerifiedNonEmpty(r, "getsize", First(r, "ffmpeg"))
              /\ dt[r].file_size > 0
              /\ ogaFile[dt[r].temp_oga_path].size > 0
        /\ pc[r] = "dt_transcribe" \/ Made(r, "transcribe") =>
              /\ \E i \in DOMAIN calls[r] :
                    /\ IsFfmpeg(calls[r][i]) /\ calls[r][i].res = "ok"
                    /\ \E j \in (i + 1)..Len(calls[r]) :
                          /\ calls[r][j].op = "getsize_wav" /\ calls[r][j].res = "ok"
                          /\ calls[r][j].n > 0
                          /\ Made(r, "transcribe") => j < First(r, "transcribe")
              /\ wavFile[dt[r].wav_path].exists
              /\ wavFile[dt[r].wav_path].size > 0
        /\ Ended(r) /\ result[r].kind = "return" => Made(r, "transcribe")
\* a run that returned a transcript after two commands failed, one of which
\* left an empty WAV file behind
C13_Witness ==
    \E r \in Reqs :
        /\ Ended(r) /\ result[r].kind = "return"
        /\ Len(FfmpegCalls(r)) = 3
        /\ VerifiedNonEmpty(r, "getsize", First(r, "ffmpeg"))
        /\ VerifiedNonEmpty(r, "getsize_wav", First(r, "transcribe"))

\* the calls of r's run that read a file
ReadsFile(c) ==
    c.op \in {"fsync", "getsize", "magic", "header", "ffmpeg", "getsize_wav", "ffprobe",
              "transcribe"}

\* C14: every call of a run that reads a file (the size checks, the sniff,
\* ffmpeg, ffprobe, the engine) reads bytes that this run downloaded, and the
\* transcript a run returns is the engine's text for the WAV file decoded from
\* this run's download, also when another request used the same paths.
C14_OwnBytes ==
    \A r \in Reqs :
        /\ \A i \in DOMAIN calls[r] : ReadsFile(calls[r][i]) => calls[r][i].src = r
        /\ Ended(r) /\ result[r].kind = "return" =>
              /\ wavFile[dt[r].wav_path].src = r
              /\ ogaFile[dt[r].temp_oga_path].src = r
              /\ result[r].text = strip(dt[r].text.v)
\* two requests were transcribed within one second: the second run took the
\* paths of the first and returned the text of its own download
C14_Witness ==
    \E r, q \in Reqs :
        /\ q # r
        /\ pc[q] = "done" /\ Truthy(response[q].transcription)
        /\ Ended(r) /\ result[r].kind = "return"
        /\ strftime(clock) = 0
        /\ wavFile[dt[r].wav_path].src = r

\* the component a call belongs to: 1 the fetcher (the download, its size
\* check, the MIME sniff and the header snapshot), 2 the transcoder (ffmpeg and
\* the size test of its WAV file), 3 the prober (ffprobe), 4 the engine
Component(op) ==
    IF op \in {"get", "open", "iter_content", "fsync", "getsize", "magic", "header"} THEN 1
    ELSE IF op \in {"ffmpeg", "getsize_wav"} THEN 2
    ELSE IF op = "ffprobe" THEN 3
    ELSE 4

\* C15 as stated: a run that reaches the transcoder has invoked the probe
\* (ffprobe) before its first ffmpeg command.
C15_Original_ProbeBeforeTranscoder ==
    \A r \in Reqs :
        Made(r, "ffmpeg") =>
            \E i \in 1..(First(r, "ffmpeg") - 1) : calls[r][i].op = "ffprobe"
\* C15 amended: the calls of a run follow the order fetcher, transcoder,
\* prober, engine: ffprobe is invoked after the last ffmpeg command, right
\* after the size of the WAV file was read and found greater than 0, and the
\* engine is invoked right after ffprobe; before its first ffmpeg command a
\* run has sniffed the MIME type and read the header of the downloaded file
\* and has not invoked ffprobe.
C15_ProbeAfterTranscoder ==
    \A r \in Reqs :
        /\ \A i, j \in DOMAIN calls[r] :
              i < j => Component(calls[r][i].op) <= Component(calls[r][j].op)
        /\ \A i \in DOMAIN calls[r] :
              /\ calls[r][i].op = "ffprobe" =>
                    /\ i > 1
                    /\ calls[r][i - 1].op = "getsize_wav"
                    /\ calls[r][i - 1].res = "ok" /\ calls[r][i - 1].n > 0
              /\ calls[r][i].op = "transcribe" => i > 1 /\ calls[r][i - 1].op = "ffprobe"
        /\ Made(r, "ffmpeg") =>
              /\ First(r, "magic") < First(r, "ffmpeg") /\ Made(r, "magic")
              /\ First(r, "header") < First(r, "ffmpeg") /\ Made(r, "header")
C15_Witness ==
    \E r \in Reqs :
        /\ Ended(r) /\ result[r].kind = "return"
        /\ Len(FfmpegCalls(r)) = 2
        /\ Made(r, "ffprobe")
        /\ First(r, "ffmpeg") < First(r, "ffprobe")

\* the number of r's calls that satisfy Test
Count(r, Test(_)) == Cardinality({i \in DOMAIN calls[r] : Test(calls[r][i])})

\* C16: a run issues the GET at most once, invokes each ffmpeg command of the
\* list at most once and the engine at most once; a run that returns a
\* transcript has issued the GET once and invoked the engine once.
C16_NoRetry ==
    \A r \in Reqs :
        /\ Count(r, LAMBDA c : c.op = "get") <= 1
        /\ \A k \in DOMAIN conversion_commands :
              Count(r, LAMBDA c : c.op = "ffmpeg" /\ c.n = k) <= 1
        /\ \A h \in {"ogg", "audio", "auto"} :
              Count(r, LAMBDA c : c.op = "ffmpeg" /\ c.hint = h) <= 1
        /\ Count(r, LAMBDA c : c.op = "transcribe") <= 1
        /\ Ended(r) /\ result[r].kind = "return" =>
              /\ Count(r, LAMBDA c : c.op = "get") = 1
              /\ Count(r, LAMBDA c : c.op = "transcribe") = 1
\* a run ended when the engine raised, after all three commands had been tried
C16_Witness ==
    \E r \in Reqs :
        /\ Ended(r) /\ result[r].kind = "raise"
        /\ Count(r, LAMBDA c : c.op = "get") = 1
        /\ Count(r, LAMBDA c : c.op = "ffmpeg") = 3
        /\ LastCall(r).op = "transcribe"

\* the rows of the events table that request r inserted
RowsOf(r) == {i \in DOMAIN rows : rows[i].req = r}
\* r's download_and_transcribe has raised and create_event has not returned
Failed(r) == pc[r] \in {"ce_after", "ce_insert"} /\ result[r].kind = "raise"

\* C17: when download_and_transcribe raised, create_event catches the
\* exception and goes on to the insert with no transcript and with the body as
\* it was received (no transcription field, the text unchanged); it makes the
\* insert once: the row carries that body and is the only row of the request,
\* and the request is answered 200 with no transcription; it is answered 500
\* only when the insert itself failed, and then no row was written.
C17_FailureSwallowed ==
    [][\A r \in Reqs :
          /\ InRun(r) => body'[r] = body[r]
          /\ Failed(r) => RowsOf(r) = {} /\ response[r] = NoResponse
          /\ Failed(r) /\ pc[r] = "ce_after" /\ pc'[r] # pc[r] =>
                /\ pc'[r] = "ce_insert"
                /\ body'[r] = body[r]
                /\ ~body'[r].transcription.some
                /\ transcription'[r] = None
                /\ rows' = rows /\ response' = response
          /\ Failed(r) /\ pc[r] = "ce_insert" /\ pc'[r] # pc[r] =>
                /\ pc'[r] = "done"
                /\ \/ /\ rows' = Append(rows, [req |-> r, body |-> body[r]])
                      /\ ~body[r].transcription.some
                      /\ response'[r] = [status_code |-> 200, transcription |-> None]
                   \/ /\ rows' = rows
                      /\ response'[r].status_code = 500
          /\ Cardinality(RowsOf(r)) <= 1
    ]_vars
\* a request with an audio attachment and no text was answered 200 and its
\* row has neither a text nor a transcription: its run had failed
C17_Witness ==
    \E r \in Reqs :
        /\ pc[r] = "done"
        /\ response[r] = [status_code |-> 200, transcription |-> None]
        /\ \E i \in RowsOf(r) :
              /\ rows[i].body.attachments > 0 /\ Truthy(rows[i].body.url)
              /\ ~rows[i].body.transcription.some
              /\ ~rows[i].body.text.some

\* the calls that read the downloaded file
ReadsDownload(c) == c.op \in {"getsize", "magic", "header", "ffmpeg"}

\* C18: when a run reads the size of the downloaded file, sniffs it, reads its
\* header or hands it to ffmpeg, it has flushed, fsynced and closed the file
\* before: the fsync precedes the call, nothing written is still buffered, the
\* file holds every byte the run received, and the size check read that
\* number of bytes.
C18_SyncedBeforeRead ==
    \A r \in Reqs :
        /\ \A i \in DOMAIN calls[r] :
              ReadsDownload(calls[r][i]) =>
                  /\ \E j \in 1..(i - 1) : calls[r][j].op = "fsync"
                  /\ dt[r].buffered = 0
                  /\ ogaFile[dt[r].temp_oga_path].size = dt[r].downloaded_size
                  /\ calls[r][i].op = "getsize" => calls[r][i].n = dt[r].downloaded_size
        /\ pc[r] \in {"dt_size", "dt_magic", "dt_wavpath", "dt_conv"} =>
              Made(r, "fsync") /\ dt[r].buffered = 0
C18_Witness ==
    \E r \in Reqs :
        /\ Made(r, "ffmpeg")
        /\ First(r, "fsync") < First(r, "getsize")
        /\ dt[r].downloaded_size > 0
        /\ ogaFile[dt[r].temp_oga_path].size = dt[r].downloaded_size

\* C19: the response carries a transcription only after download_and_transcribe
\* returned a non-empty text, and a 200 response carries it whenever it did;
\* after a failure the response has no transcription, neither a text nor the
\* empty string; after an empty transcript the 200 response has no
\* transcription while the body of the inserted row has transcription "".
C19_TranscriptionField ==
    [][\A r \in Reqs :
          pc[r] = "ce_insert" /\ pc'[r] = "done" =>
              LET ok == result[r].kind = "return"
                  answer == response'[r]
              IN
              /\ answer.transcription.some =>
                    /\ ok /\ result[r].text # <<>>
                    /\ answer.transcription = Some(result[r].text)
                    /\ answer.status_code = 200
              /\ answer.status_code = 200 /\ ok /\ result[r].text # <<>> =>
                    answer.transcription = Some(result[r].text)
              /\ answer.status_code = 200 /\ ok /\ result[r].text = <<>> =>
                    /\ answer.transcription = None
                    /\ rows' = Append(rows, [req |-> r, body |-> body[r]])
                    /\ body[r].transcription = Some(<<>>)
              /\ ~ok => answer.transcription = None /\ ~body[r].transcription.some
    ]_vars
\* a request was answered 200 with no transcription and its row has the
\* transcription "": its run returned an empty transcript
C19_Witness ==
    \E r \in Reqs :
        /\ pc[r] = "done"
        /\ response[r] = [status_code |-> 200, transcription |-> None]
        /\ \E i \in RowsOf(r) : rows[i].body.transcription = Some(<<>>)

\* a step of request r's handler
HandlerStep(r) ==
    \/ Start(r) \/ ReadJson(r) \/ CheckAttachment(r) \/ RunStep(r)
    \/ AfterTranscribe(r) \/ InsertRow(r)

\* C20: while a run is in progress the event loop is held by its request: no
\* other request has a run in progress or a run that has just ended, and no
\* step of another request's handler can be taken, from the run's first step
\* to its return or raise.
C20_NoInterleaving ==
    \A r \in Reqs :
        InRun(r) \/ Ended(r) =>
            /\ loop = r
            /\ \A q \in Reqs \ {r} :
                  /\ ~InRun(q) /\ ~Ended(q)
                  /\ ~ENABLED HandlerStep(q)
\* a run is in progress while the handler of another request, which has
\* started, waits
C20_Witness ==
    \E r, q \in Reqs :
        /\ q # r
        /\ pc[r] = "dt_conv" /\ Made(r, "ffmpeg")
        /\ pc[q] = "ce_json"

====
